---- MODULE Spec2Model ----
(***************************************************************************)
(* Model of src/repro.py: the script create_documents() builds a document  *)
(* with one `id` and a run of generated fields, posts it, prints a line,   *)
(* builds a second two-field document, posts it and prints a second line.  *)
(* The script is the process; the HTTP transport and the endpoint are the  *)
(* environment, which answers a pending call with a response, raises a     *)
(* network fault in the caller, or leaves the call pending.                *)
(***************************************************************************)
EXTENDS Integers, Sequences, FiniteSets, TLC

(* range(65535) of line 9, scaled down: the loop is modelled iteration by  *)
(* iteration and the bound keeps one- and two-digit suffixes in play.      *)
NumFields == 11

(* What the environment can hand back to a call. *)
Statuses == {202, 400, 500}
Bodies == {"{\"taskUid\":0}", "{\"message\":\"error\"}"}
Responses == [status : Statuses, text : Bodies]
NetworkFaults == {"ConnectionError", "Timeout"}

VARIABLES
    HOST,       \* module global, line 3
    HEADERS,    \* module global, line 4
    pc,         \* position of the script inside create_documents
    i,          \* loop variable of line 9
    doc1,       \* local doc1
    doc2,       \* local doc2 (empty mapping while unbound)
    requests,   \* outbound requests handed to the transport, in order
    responses,  \* responses returned to the script (and dropped by it)
    stdout,     \* lines printed
    fault,      \* exception that unwound the script, "none" otherwise
    events      \* order of the observable events (requests and prints)

vars == <<HOST, HEADERS, pc, i, doc1, doc2, requests, responses, stdout, fault, events>>

(* ---------------------------------------------------------------------- *)
(* Pure helpers                                                           *)
(* ---------------------------------------------------------------------- *)

EmptyDict == [k \in {} |-> 0]

(* d[k] = v on a Python dict: insert, or overwrite an existing key. *)
DictSet(d, k, v) == [x \in DOMAIN d \cup {k} |-> IF x = k THEN v ELSE d[x]]

(* a key that keeps only the last digit of the index *)
FieldKeyMod10(n) == "field_" \o ToString(n % 10)

(* f"field_{i}" *)
FieldKey(n) == "field_" \o ToString(n)

(* f"value_{i}" *)
FieldValue(n) == "value_" \o ToString(n)

(* f"{HOST}/indexes/test/documents" *)
Url(host) == host \o "/indexes/test/documents"

(* requests.post(url, headers=..., json=[doc]) as seen by the transport. *)
PostRequest(host, headers, doc) ==
    [method |-> "POST", url |-> Url(host), headers |-> headers, json |-> <<doc>>]

Line1 == "Add one document with 65,535 unique fields"
Line2 == "Add a second document with a new unique field"

RequestEvent(k) == [kind |-> "request", idx |-> k]
PrintEvent(k) == [kind |-> "print", idx |-> k]

(* ---------------------------------------------------------------------- *)
(* The script                                                             *)
(* ---------------------------------------------------------------------- *)

Init ==
    /\ HOST = "http://localhost:7700"
    /\ HEADERS = [h \in {"X-Meili-API-Key"} |-> "masterKey"]
    /\ pc = "doc1"
    /\ i = 0
    /\ doc1 = EmptyDict
    /\ doc2 = EmptyDict
    /\ requests = <<>>
    /\ responses = <<>>
    /\ stdout = <<>>
    /\ fault = "none"
    /\ events = <<>>

(* line 8: doc1 = {"id": 1} *)
InitDoc1 ==
    /\ pc = "doc1"
    /\ doc1' = DictSet(EmptyDict, "id", 1)
    /\ i' = 0
    /\ pc' = "loop"
    /\ UNCHANGED <<HOST, HEADERS, doc2, requests, responses, stdout, fault, events>>

(* a loop whose counter does not advance *)
LoopBodyNoAdvance ==
    /\ pc = "loop"
    /\ i < NumFields
    /\ doc1' = DictSet(doc1, FieldKey(i), FieldValue(i))
    /\ i' = i
    /\ UNCHANGED <<HOST, HEADERS, pc, doc2, requests, responses, stdout, fault, events>>

(* lines 9-10: one iteration of the loop *)
LoopBody ==
    /\ pc = "loop"
    /\ i < NumFields
    /\ doc1' = DictSet(doc1, FieldKey(i), FieldValue(i))
    /\ i' = i + 1
    /\ UNCHANGED <<HOST, HEADERS, pc, doc2, requests, responses, stdout, fault, events>>

(* line 9: range exhausted *)
LoopEnd ==
    /\ pc = "loop"
    /\ i = NumFields
    /\ pc' = "post1"
    /\ UNCHANGED <<HOST, HEADERS, i, doc1, doc2, requests, responses, stdout, fault, events>>

(* a call that adds a header to the shared HEADERS mapping in place *)
Post1CallMutatesHeaders ==
    /\ pc = "post1"
    /\ HEADERS' = DictSet(HEADERS, "Content-Type", "application/json")
    /\ requests' = Append(requests, PostRequest(HOST, HEADERS', doc1))
    /\ events' = Append(events, RequestEvent(Len(requests) + 1))
    /\ pc' = "wait1"
    /\ UNCHANGED <<HOST, i, doc1, doc2, responses, stdout, fault>>

(* a call that does not block: the script goes on to print at once *)
Post1CallNoBlock ==
    /\ pc = "post1"
    /\ requests' = Append(requests, PostRequest(HOST, HEADERS, doc1))
    /\ events' = Append(events, RequestEvent(Len(requests) + 1))
    /\ pc' = "print1"
    /\ UNCHANGED <<HOST, HEADERS, i, doc1, doc2, responses, stdout, fault>>

(* lines 13-17: the call is made and the script blocks in it *)
Post1Call ==
    /\ pc = "post1"
    /\ requests' = Append(requests, PostRequest(HOST, HEADERS, doc1))
    /\ events' = Append(events, RequestEvent(Len(requests) + 1))
    /\ pc' = "wait1"
    /\ UNCHANGED <<HOST, HEADERS, i, doc1, doc2, responses, stdout, fault>>

(* a call followed by raise_for_status() *)
Post1ReturnRaiseForStatus ==
    /\ pc = "wait1"
    /\ \E r \in Responses :
          /\ responses' = Append(responses, r)
          /\ IF r.status >= 400
                THEN pc' = "crashed" /\ fault' = "HTTPError"
                ELSE pc' = "print1" /\ fault' = fault
    /\ UNCHANGED <<HOST, HEADERS, i, doc1, doc2, requests, stdout, events>>

(* lines 13-17: the call returns a response, which the script drops *)
Post1Return ==
    /\ pc = "wait1"
    /\ \E r \in Responses : responses' = Append(responses, r)
    /\ pc' = "print1"
    /\ UNCHANGED <<HOST, HEADERS, i, doc1, doc2, requests, stdout, fault, events>>

(* lines 13-17: the call raises; nothing catches, the script unwinds *)
Post1Raise ==
    /\ pc = "wait1"
    /\ \E e \in NetworkFaults : fault' = e
    /\ pc' = "crashed"
    /\ UNCHANGED <<HOST, HEADERS, i, doc1, doc2, requests, responses, stdout, events>>

(* line 18 *)
Print1 ==
    /\ pc = "print1"
    /\ stdout' = Append(stdout, Line1)
    /\ events' = Append(events, PrintEvent(Len(stdout) + 1))
    /\ pc' = "doc2"
    /\ UNCHANGED <<HOST, HEADERS, i, doc1, doc2, requests, responses, fault>>

(* a second document built on top of the first one *)
BuildDoc2FromDoc1 ==
    /\ pc = "doc2"
    /\ doc2' = DictSet(DictSet(doc1, "id", 2), "new_unique_field", "new_value")
    /\ pc' = "post2"
    /\ UNCHANGED <<HOST, HEADERS, i, doc1, requests, responses, stdout, fault, events>>

(* a second document whose id is taken from the first response *)
BuildDoc2FromResponse ==
    /\ pc = "doc2"
    /\ doc2' = DictSet(DictSet(EmptyDict, "id", IF responses[1].status = 202 THEN 2 ELSE 1),
                       "new_unique_field", "new_value")
    /\ pc' = "post2"
    /\ UNCHANGED <<HOST, HEADERS, i, doc1, requests, responses, stdout, fault, events>>

(* lines 21-24 *)
BuildDoc2 ==
    /\ pc = "doc2"
    /\ doc2' = DictSet(DictSet(EmptyDict, "id", 2), "new_unique_field", "new_value")
    /\ pc' = "post2"
    /\ UNCHANGED <<HOST, HEADERS, i, doc1, requests, responses, stdout, fault, events>>

(* a second call that sends doc1 again *)
Post2CallSendsDoc1 ==
    /\ pc = "post2"
    /\ requests' = Append(requests, PostRequest(HOST, HEADERS, doc1))
    /\ events' = Append(events, RequestEvent(Len(requests) + 1))
    /\ pc' = "wait2"
    /\ UNCHANGED <<HOST, HEADERS, i, doc1, doc2, responses, stdout, fault>>

(* lines 27-31 *)
Post2Call ==
    /\ pc = "post2"
    /\ requests' = Append(requests, PostRequest(HOST, HEADERS, doc2))
    /\ events' = Append(events, RequestEvent(Len(requests) + 1))
    /\ pc' = "wait2"
    /\ UNCHANGED <<HOST, HEADERS, i, doc1, doc2, responses, stdout, fault>>

(* lines 27-31 *)
Post2Return ==
    /\ pc = "wait2"
    /\ \E r \in Responses : responses' = Append(responses, r)
    /\ pc' = "print2"
    /\ UNCHANGED <<HOST, HEADERS, i, doc1, doc2, requests, stdout, fault, events>>

(* a fault that is caught and ignored: the script goes on to print *)
Post2RaiseCaught ==
    /\ pc = "wait2"
    /\ \E e \in NetworkFaults : fault' = e
    /\ pc' = "print2"
    /\ UNCHANGED <<HOST, HEADERS, i, doc1, doc2, requests, responses, stdout, events>>

(* lines 27-31 *)
Post2Raise ==
    /\ pc = "wait2"
    /\ \E e \in NetworkFaults : fault' = e
    /\ pc' = "crashed"
    /\ UNCHANGED <<HOST, HEADERS, i, doc1, doc2, requests, responses, stdout, events>>

(* a second print that repeats the first line *)
Print2RepeatsLine1 ==
    /\ pc = "print2"
    /\ stdout' = Append(stdout, Line1)
    /\ events' = Append(events, PrintEvent(Len(stdout) + 1))
    /\ pc' = "done"
    /\ UNCHANGED <<HOST, HEADERS, i, doc1, doc2, requests, responses, fault>>

(* line 32, then the function and the script return *)
Print2 ==
    /\ pc = "print2"
    /\ stdout' = Append(stdout, Line2)
    /\ events' = Append(events, PrintEvent(Len(stdout) + 1))
    /\ pc' = "done"
    /\ UNCHANGED <<HOST, HEADERS, i, doc1, doc2, requests, responses, fault>>

Next ==
    \/ InitDoc1
    \/ LoopBody
    \/ LoopEnd
    \/ Post1Call
    \/ Post1Return
    \/ Post1Raise
    \/ Print1
    \/ BuildDoc2
    \/ Post2Call
    \/ Post2Return
    \/ Post2Raise
    \/ Print2

Spec == Init /\ [][Next]_vars

(* The environment answers every pending call; the script, being a         *)
(* sequential program, takes its next step whenever it has one.            *)
ScriptStep ==
    \/ InitDoc1
    \/ LoopBody
    \/ LoopEnd
    \/ Post1Call
    \/ Print1
    \/ BuildDoc2
    \/ Post2Call
    \/ Print2

FairSpec ==
    /\ Spec
    /\ WF_vars(ScriptStep)
    /\ WF_vars(Post1Return \/ Post1Raise)
    /\ WF_vars(Post2Return \/ Post2Raise)

(* ---------------------------------------------------------------------- *)
(* Properties                                                             *)
(* ---------------------------------------------------------------------- *)

FieldIndexes == 0 .. (NumFields - 1)

Endpoint == "http://localhost:7700/indexes/test/documents"
ApiKeyHeader == [h \in {"X-Meili-API-Key"} |-> "masterKey"]

IsRecord1(r) ==
    /\ Cardinality(DOMAIN r) = NumFields + 1
    /\ DOMAIN r = {"id"} \cup {FieldKey(n) : n \in FieldIndexes}
    /\ r["id"] = 1
    /\ \A n \in FieldIndexes : r[FieldKey(n)] = FieldValue(n)
    /\ r["field_0"] = "value_0"
    /\ r["field_10"] = "value_10"

IsRecord2(r) ==
    /\ DOMAIN r = {"id", "new_unique_field"}
    /\ r["id"] = 2
    /\ r["new_unique_field"] = "new_value"

IsPostOf(req) ==
    /\ req.method = "POST"
    /\ req.url = Endpoint
    /\ req.headers = ApiKeyHeader
    /\ Len(req.json) = 1

ExpectedEvents == <<RequestEvent(1), PrintEvent(1), RequestEvent(2), PrintEvent(2)>>
ExpectedStdout == <<Line1, Line2>>

IsPrefix(s, t) == Len(s) <= Len(t) /\ \A k \in 1 .. Len(s) : s[k] = t[k]

Terminated == pc \in {"done", "crashed"}
Pending == pc \in {"wait1", "wait2"}

(* C1: the record in the body of the first request has exactly             *)
(* NumFields + 1 entries, `id` = 1 and field_n = value_n for every n below *)
(* NumFields, no other key and no collision, and the loop has finished     *)
(* (i = NumFields) before the request is sent.                             *)
C1_FirstRecord ==
    Len(requests) >= 1 =>
        /\ i = NumFields
        /\ Len(requests[1].json) = 1
        /\ IsRecord1(requests[1].json[1])

C1_Witness == pc = "wait1" /\ Len(requests) = 1 /\ i = NumFields

(* C2: the record in the body of the second request has exactly the two    *)
(* entries `id` = 2 and `new_unique_field` = "new_value", and none of the  *)
(* generated keys of the first record.                                     *)
C2_SecondRecord ==
    Len(requests) >= 2 =>
        /\ Len(requests[2].json) = 1
        /\ IsRecord2(requests[2].json[1])
        /\ \A n \in FieldIndexes : FieldKey(n) \notin DOMAIN requests[2].json[1]

C2_Witness == pc = "wait2" /\ Len(requests) = 2

(* C3: every request is a POST to the fixed endpoint with the fixed header *)
(* and a body of exactly one record, and HOST and HEADERS keep the values  *)
(* of lines 3-4 throughout the run.                                        *)
C3_FixedEndpoint ==
    /\ HOST = "http://localhost:7700"
    /\ HEADERS = ApiKeyHeader
    /\ \A k \in 1 .. Len(requests) : IsPostOf(requests[k])

C3_Witness == pc = "print2" /\ Len(requests) = 2

(* C4: when both calls have returned and the script has finished, the      *)
(* observable events are request 1, line 1, request 2, line 2, once each   *)
(* and in that order; the output is the two lines and the endpoint has     *)
(* been sent record 1 then record 2.                                       *)
C4_EndToEnd ==
    (pc = "done" /\ Len(responses) = 2) =>
        /\ events = ExpectedEvents
        /\ stdout = ExpectedStdout
        /\ Len(requests) = 2
        /\ IsRecord1(requests[1].json[1])
        /\ IsRecord2(requests[2].json[1])

C4_Witness ==
    /\ pc = "done"
    /\ Len(responses) = 2
    /\ responses[1].status = 202
    /\ responses[2].status = 202

(* C5: every call that returned, whatever its status, is followed by its   *)
(* confirmation line, printed once: the k-th returned response leaves the  *)
(* script at the k-th print or past it, and a finished run has printed     *)
(* both lines for every combination of statuses.                           *)
C5_PrintUnconditional ==
    /\ \A k \in 1 .. Len(responses) :
          \/ Len(stdout) >= k
          \/ (Len(stdout) = k - 1 /\ pc = (IF k = 1 THEN "print1" ELSE "print2"))
    /\ Len(stdout) <= Len(responses)
    /\ (Len(responses) = 2 /\ pc \notin {"print2"}) => stdout = ExpectedStdout

C5_Witness ==
    /\ pc = "done"
    /\ Len(responses) = 2
    /\ responses[1].status = 500
    /\ responses[2].status = 202
    /\ stdout = ExpectedStdout

(* C6: a network fault ends the run: the script is then crashed with that  *)
(* fault, the failed request was handed out once (one more request than    *)
(* responses), its line is not printed, the last event is that request,    *)
(* and no step of the script follows a fault.                              *)
C6_FaultState ==
    fault # "none" =>
        /\ pc = "crashed"
        /\ fault \in NetworkFaults
        /\ Len(requests) = Len(responses) + 1
        /\ Len(stdout) = Len(responses)
        /\ events[Len(events)] = RequestEvent(Len(requests))
        /\ Cardinality({k \in 1 .. Len(events) : events[k] = RequestEvent(Len(requests))}) = 1

C6_FaultTerminates ==
    /\ [](C6_FaultState /\ (pc = "crashed" => fault # "none"))
    /\ [][fault = "none"]_vars

C6_Witness == pc = "crashed" /\ fault = "Timeout" /\ Len(requests) = 2 /\ Len(stdout) = 1

(* C7: requests and printed lines do not depend on the responses: in every *)
(* state, for every response returned so far, the requests issued, the     *)
(* lines printed and their order are a prefix of one fixed sequence.       *)
C7_NoDependencyOnResponses ==
    /\ IsPrefix(events, ExpectedEvents)
    /\ IsPrefix(stdout, ExpectedStdout)
    /\ Len(requests) <= 2
    /\ \A k \in 1 .. Len(requests) :
          /\ IsPostOf(requests[k])
          /\ IF k = 1 THEN IsRecord1(requests[k].json[1]) ELSE IsRecord2(requests[k].json[1])

C7_Witness ==
    /\ pc = "done"
    /\ Len(responses) = 2
    /\ responses[1] = [status |-> 400, text |-> "{\"message\":\"error\"}"]
    /\ responses[2] = [status |-> 202, text |-> "{\"taskUid\":0}"]

(* C8 as stated: whatever the outcome of the first send, a run that has    *)
(* ended has issued the second request, carrying record 2.                 *)
C8_Original ==
    Terminated =>
        /\ Len(requests) = 2
        /\ IsRecord2(requests[2].json[1])

(* C8 amended: whatever response the first call returns, a run that has    *)
(* ended has issued exactly one second request, carrying record 2, and has *)
(* printed the second line once if the second call returned; when the      *)
(* first call faults the second send is not executed: one request, no      *)
(* line. The second send leaves doc1, the first request and the first line *)
(* as they were.                                                           *)
C8_SecondSendState ==
    /\ (Terminated /\ Len(responses) >= 1) =>
          /\ Len(requests) = 2
          /\ IsRecord2(requests[2].json[1])
          /\ Cardinality({k \in 1 .. Len(events) : events[k].kind = "request"}) = 2
          /\ pc = "done" => (Len(stdout) = 2 /\ stdout[2] = Line2)
          /\ pc = "crashed" => stdout = <<Line1>>
    /\ (Terminated /\ Len(responses) = 0) =>
          /\ pc = "crashed"
          /\ Len(requests) = 1
          /\ stdout = <<>>
          /\ doc2 = EmptyDict

C8_SecondSendFrame ==
    pc \in {"doc2", "post2", "wait2", "print2"} =>
        /\ doc1' = doc1
        /\ IsPrefix(requests, requests')
        /\ IsPrefix(stdout, stdout')
        /\ IsPrefix(responses, responses')

C8_SecondSend == []C8_SecondSendState /\ [][C8_SecondSendFrame]_vars

C8_Witness ==
    /\ pc = "done"
    /\ responses[1].status = 400
    /\ requests[2].json[1]["id"] = 2
    /\ stdout[2] = Line2

(* C9: when every pending call is eventually answered or faulted, the run  *)
(* ends; the loop makes NumFields iterations and stops, there are never    *)
(* more than two requests or two lines, and a step taken while a call is   *)
(* pending is the return or the fault of that call: no print, no new       *)
(* request, no cancellation by the script.                                 *)
C9_Bounded ==
    /\ i \in 0 .. NumFields
    /\ pc = "loop" => Cardinality(DOMAIN doc1) = i + 1
    /\ pc \notin {"doc1", "loop"} => (i = NumFields /\ Cardinality(DOMAIN doc1) = NumFields + 1)
    /\ Len(requests) <= 2
    /\ Len(stdout) <= 2

C9_BlockedStep ==
    Pending =>
        /\ stdout' = stdout
        /\ requests' = requests
        /\ events' = events
        /\ \/ /\ Len(responses') = Len(responses) + 1
              /\ fault' = "none"
              /\ pc' = (IF pc = "wait1" THEN "print1" ELSE "print2")
           \/ /\ responses' = responses
              /\ fault' \in NetworkFaults
              /\ pc' = "crashed"

C9_Termination == <>Terminated /\ []C9_Bounded /\ [][C9_BlockedStep]_vars

C9_Witness == pc = "done" /\ i = NumFields /\ Len(requests) = 2 /\ Len(stdout) = 2

(* C10: in every reachable state, lines printed <= requests issued <= 2,   *)
(* the two differ by at most 1, the k-th line is printed only after the    *)
(* k-th call returned, the second request is issued only after the first   *)
(* line, and at most one call is pending.                                  *)
PendingCalls == Len(requests) - Len(responses) - (IF fault = "none" THEN 0 ELSE 1)

C10_Counts ==
    /\ Len(stdout) <= Len(requests)
    /\ Len(requests) <= 2
    /\ Len(requests) - Len(stdout) <= 1
    /\ Len(stdout) <= Len(responses)
    /\ Len(responses) <= Len(requests)
    /\ Len(requests) = 2 => stdout # <<>> /\ stdout[1] = Line1
    /\ PendingCalls \in {0, 1}
    /\ PendingCalls = 1 <=> Pending

C10_Witness ==
    /\ pc = "wait2"
    /\ Len(requests) = 2
    /\ Len(responses) = 1
    /\ Len(stdout) = 1

====
